---- MODULE Spec2Model ----
(***************************************************************************)
(* A model of nbsdx::concurrent::ThreadPool<ThreadCount> (src/ThreadPool.h) *)
(*                                                                         *)
(* The pool's ThreadCount worker threads run Task()/next_job(); the pool   *)
(* is driven by two caller threads: the Owner, which constructs the pool,  *)
(* may call AddJob, WaitAll and JoinAll and finally destroys the pool, and *)
(* a Client, which may call AddJob and WaitAll concurrently.  Every step   *)
(* below is one atomic access of the code: a mutex acquisition together    *)
(* with the accesses of the critical section it opens, one access to an    *)
(* atomic variable, one condition-variable operation.                      *)
(***************************************************************************)
EXTENDS Integers, Sequences, FiniteSets, TLC

\* The instantiations of the template parameter ThreadCount the model
\* covers: ThreadPool<1> and ThreadPool<2>.
PoolSizes == {1, 2}

\* The largest pool
MaxThreadCount == CHOOSE n \in PoolSizes : \A m \in PoolSizes : m <= n

\* Number of distinct jobs the callers submit in one run.
MaxJobs == 2

\* The job `[]{}` a worker synthesizes when it wakes up with bailout set.
NoOp == 0

ThreadIds == 1..MaxThreadCount
Owner   == MaxThreadCount + 1
Client  == MaxThreadCount + 2
Callers == {Owner, Client}
Jobs    == 1..MaxJobs

VARIABLES
  queue,                 \* list<Job> queue: the ids of the queued jobs
  jobs_left,             \* atomic_int jobs_left
  bailout,               \* atomic_bool bailout
  finished,              \* atomic_bool finished
  queue_mutex,           \* the set of threads holding queue_mutex (at most one)
  job_available_mutex,   \* the set of threads holding job_available_mutex
  wait_mutex,            \* the set of threads holding wait_mutex
  job_available_waiters, \* workers blocked inside job_available_var.wait
  wait_waiters,          \* callers blocked inside wait_var.wait
  wpc,                   \* wpc[w]: where worker w is in Task()/next_job()
  res,                   \* res[w]: the job next_job() returned to worker w
  joined,                \* the threads[] entries JoinAll has joined
  cpc,                   \* cpc[c]: where caller c is in the call it is making
  cop,                   \* cop[c]: the public call c is making, or the JoinAll
                         \* (or destructor) call it made last
  arg,                   \* arg[c]: the job of c's AddJob call
  nextJob,               \* the id of the next job to be submitted
  submitted,             \* the jobs whose AddJob call has returned
  executed,              \* executed[j]: how many times job j's body has run
  conc,                  \* conc[c]: an AddJob call overlapped c's WaitAll or
                         \* JoinAll call
  joinRan,               \* the last JoinAll call found finished false
  dtorBusy,              \* jobs were pending when the destructor was entered
  queuedAtJoin,          \* submitted jobs queued when JoinAll(false) was called
  emptyPop,              \* queue.front() was evaluated on an empty queue
  appended,              \* the jobs in the order AddJob appended them
  ret,                   \* the value a JobsRemaining call is about to return
  taken                  \* taken[w]: the real jobs w dequeued with bailout set
                         \* and its thread function not yet returned

\* The pool's worker threads: the indices of array<thread, ThreadCount> threads
Workers == DOMAIN wpc

\* Size(): the number of threads in this pool
ThreadCount == Cardinality(Workers)

vars == <<queue, jobs_left, bailout, finished, queue_mutex, job_available_mutex,
          wait_mutex, job_available_waiters, wait_waiters, wpc, res, joined,
          cpc, cop, arg, nextJob, submitted, executed, conc, joinRan, dtorBusy,
          queuedAtJoin, emptyPop, appended, ret, taken>>

poolVars   == <<queue, jobs_left, bailout, finished>>
mutexVars  == <<queue_mutex, job_available_mutex, wait_mutex>>
cvVars     == <<job_available_waiters, wait_waiters>>
workerVars == <<wpc, res>>
callerVars == <<cpc, cop, arg, nextJob, submitted, conc, joinRan, dtorBusy,
                queuedAtJoin>>

\* ThreadPool<n>(), lines 97-104: the members' initial values, and n threads
\* started on Task().
Construct(n) ==
  /\ queue = <<>>
  /\ jobs_left = 0
  /\ bailout = FALSE
  /\ finished = FALSE
  /\ queue_mutex = {}
  /\ job_available_mutex = {}
  /\ wait_mutex = {}
  /\ job_available_waiters = {}
  /\ wait_waiters = {}
  /\ wpc = [w \in 1..n |-> "task"]
  /\ res = [w \in 1..n |-> NoOp]
  /\ joined = {}
  /\ cpc = [c \in Callers |-> "idle"]
  /\ cop = [c \in Callers |-> "none"]
  /\ arg = [c \in Callers |-> NoOp]
  /\ nextJob = 1
  /\ submitted = {}
  /\ executed = [j \in Jobs |-> 0]
  /\ conc = [c \in Callers |-> FALSE]
  /\ joinRan = FALSE
  /\ dtorBusy = FALSE
  /\ queuedAtJoin = {}
  /\ emptyPop = FALSE
  /\ appended = <<>>
  /\ ret = 0
  /\ taken = [w \in 1..n |-> 0]

Init == \E n \in PoolSizes : Construct(n)

\* A pool with a single worker thread, ThreadPool<1>
InitOne == Construct(1)

----------------------------------------------------------------------------
(* Helpers                                                                 *)

\* A front() that returns the newest job of the queue
Front_Back(q) == q[Len(q)]

\* queue.front()
Front(q) == Head(q)

\* A pop_front() that leaves the front job in the queue
PopFront_Keep(q) == q

\* queue.pop_front()
PopFront(q) == Tail(q)

\* A JobsRemaining() that returns the counter of unfinished jobs
JobsRemaining_Counter == jobs_left

\* JobsRemaining(): queue.size() read under a lock_guard on queue_mutex; the
\* caller of this operator checks that queue_mutex is free.
JobsRemaining == Len(queue)

\* condition_variable::notify_one on a set of blocked threads: the sets of
\* threads that may remain blocked (one waiter, any one, is released).
NotifyOne(waiters) ==
  IF waiters = {} THEN {waiters} ELSE {waiters \ {t} : t \in waiters}

\* An AddJob call is between its entry and its return.
InAddJob(c) == cpc[c] \in {"aj_push", "aj_inc", "aj_notify"}

\* A WaitAll or JoinAll call of c (or the destructor) is under way.
Draining(c) == cpc[c] \notin {"idle", "destroyed", "aj_push", "aj_inc",
                              "aj_notify", "jr_return"}

\* A WaitAll call (direct, or made by JoinAll) is between entry and return.
InWaitAll(c) == cpc[c] \in {"wa_check", "wa_lock", "wa_pred", "wa_block",
                            "wa_waiting", "wa_unlock"}

----------------------------------------------------------------------------
(* The worker threads: Task() and next_job()                               *)

\* A loop that goes on while jobs are queued:
\* while( !bailout || !queue.empty() )
TaskLoop_DrainsQueue(w) ==
  /\ w \in Workers
  /\ wpc[w] = "task"
  /\ LET exit == bailout /\ queue = <<>>
     IN  /\ wpc' = [wpc EXCEPT ![w] = IF exit THEN "done" ELSE "nj_lock"]
         /\ taken' = IF exit THEN [taken EXCEPT ![w] = 0] ELSE taken
  /\ UNCHANGED <<poolVars, mutexVars, cvVars, res, joined, callerVars,
                 executed, emptyPop, appended, ret>>

\* Task(), line 55: while( !bailout )
TaskLoop(w) ==
  /\ w \in Workers
  /\ wpc[w] = "task"
  /\ wpc' = [wpc EXCEPT ![w] = IF bailout THEN "done" ELSE "nj_lock"]
  /\ taken' = IF bailout THEN [taken EXCEPT ![w] = 0] ELSE taken
  /\ UNCHANGED <<poolVars, mutexVars, cvVars, res, joined, callerVars,
                 executed, emptyPop, appended, ret>>

\* next_job(), line 68: unique_lock<mutex> job_lock( job_available_mutex )
NJLock(w) ==
  /\ w \in Workers
  /\ wpc[w] = "nj_lock"
  /\ job_available_mutex = {}
  /\ job_available_mutex' = {w}
  /\ wpc' = [wpc EXCEPT ![w] = "nj_first"]
  /\ UNCHANGED <<poolVars, queue_mutex, wait_mutex, cvVars, res, joined,
                 callerVars, executed, emptyPop, appended, ret, taken>>

\* A next_job() that goes on to wait without queue_mutex.unlock()
NJFirst_KeepsQueueLock(w) ==
  /\ w \in Workers
  /\ wpc[w] = "nj_first"
  /\ queue_mutex = {}
  /\ queue_mutex' = {w}
  /\ IF queue # <<>>
       THEN /\ res' = [res EXCEPT ![w] = Front(queue)]
            /\ queue' = PopFront(queue)
            /\ taken' = IF bailout THEN [taken EXCEPT ![w] = @ + 1] ELSE taken
            /\ wpc' = [wpc EXCEPT ![w] = "nj_unlock"]
       ELSE /\ wpc' = [wpc EXCEPT ![w] = "nj_pred"]
            /\ UNCHANGED <<res, queue, taken>>
  /\ UNCHANGED <<jobs_left, bailout, finished, job_available_mutex, wait_mutex,
                 cvVars, joined, callerVars, executed, emptyPop, appended, ret>>

\* next_job(), lines 69-77: queue_mutex.lock(); if the queue is not empty
\* take its front (queue_mutex stays held up to line 90), otherwise
\* queue_mutex.unlock() and go on to wait.
NJFirst(w) ==
  /\ w \in Workers
  /\ wpc[w] = "nj_first"
  /\ queue_mutex = {}
  /\ IF queue # <<>>
       THEN /\ res' = [res EXCEPT ![w] = Front(queue)]
            /\ queue' = PopFront(queue)
            /\ queue_mutex' = {w}
            /\ taken' = IF bailout THEN [taken EXCEPT ![w] = @ + 1] ELSE taken
            /\ wpc' = [wpc EXCEPT ![w] = "nj_unlock"]
       ELSE /\ wpc' = [wpc EXCEPT ![w] = "nj_pred"]
            /\ UNCHANGED <<res, queue, queue_mutex, taken>>
  /\ UNCHANGED <<jobs_left, bailout, finished, job_available_mutex, wait_mutex,
                 cvVars, joined, callerVars, executed, emptyPop, appended, ret>>

\* next_job(), line 78, the wait predicate's first operand: JobsRemaining()
\* evaluated with job_lock held.
NJPred(w) ==
  /\ w \in Workers
  /\ wpc[w] = "nj_pred"
  /\ queue_mutex = {}
  /\ wpc' = [wpc EXCEPT ![w] = IF JobsRemaining > 0 THEN "nj_wake"
                                                    ELSE "nj_pred_bail"]
  /\ UNCHANGED <<poolVars, mutexVars, cvVars, res, joined, callerVars,
                 executed, emptyPop, appended, ret, taken>>

\* next_job(), line 78, the wait predicate's second operand: || bailout
NJPredBail(w) ==
  /\ w \in Workers
  /\ wpc[w] = "nj_pred_bail"
  /\ wpc' = [wpc EXCEPT ![w] = IF bailout THEN "nj_wake" ELSE "nj_block"]
  /\ UNCHANGED <<poolVars, mutexVars, cvVars, res, joined, callerVars,
                 executed, emptyPop, appended, ret, taken>>

\* next_job(), line 78, the predicate was false: condition_variable::wait
\* atomically releases job_lock and blocks the worker.
NJBlock(w) ==
  /\ w \in Workers
  /\ wpc[w] = "nj_block"
  /\ job_available_mutex' = {}
  /\ job_available_waiters' = job_available_waiters \cup {w}
  /\ wpc' = [wpc EXCEPT ![w] = "nj_waiting"]
  /\ UNCHANGED <<poolVars, queue_mutex, wait_mutex, wait_waiters, res, joined,
                 callerVars, executed, emptyPop, appended, ret, taken>>

\* A wait without predicate, job_available_var.wait( job_lock ): an unblocked
\* worker reacquires job_lock and goes on.
NJReacquire_NoRecheck(w) ==
  /\ w \in Workers
  /\ wpc[w] = "nj_waiting"
  /\ w \notin job_available_waiters
  /\ job_available_mutex = {}
  /\ job_available_mutex' = {w}
  /\ wpc' = [wpc EXCEPT ![w] = "nj_wake"]
  /\ UNCHANGED <<poolVars, queue_mutex, wait_mutex, cvVars, res, joined,
                 callerVars, executed, emptyPop, appended, ret, taken>>

\* next_job(), line 78: a worker that was unblocked reacquires job_lock and
\* evaluates the predicate again.
NJReacquire(w) ==
  /\ w \in Workers
  /\ wpc[w] = "nj_waiting"
  /\ w \notin job_available_waiters
  /\ job_available_mutex = {}
  /\ job_available_mutex' = {w}
  /\ wpc' = [wpc EXCEPT ![w] = "nj_pred"]
  /\ UNCHANGED <<poolVars, queue_mutex, wait_mutex, cvVars, res, joined,
                 callerVars, executed, emptyPop, appended, ret, taken>>

\* The injected job without its ++jobs_left
Compensate_NoIncrement(w) ==
  /\ res' = [res EXCEPT ![w] = NoOp]
  /\ UNCHANGED <<queue, jobs_left, emptyPop>>

\* next_job(), lines 85-88: the job injected on bailout, and its ++jobs_left
Compensate(w) ==
  /\ res' = [res EXCEPT ![w] = NoOp]
  /\ jobs_left' = jobs_left + 1
  /\ UNCHANGED <<queue, emptyPop>>

\* next_job(), lines 82-83: queue.front(); queue.pop_front() after the wait.
\* On an empty list both are undefined; the model records that it happened.
TakeAfterWait(w) ==
  /\ IF queue # <<>>
       THEN /\ res' = [res EXCEPT ![w] = Front(queue)]
            /\ queue' = PopFront(queue)
            /\ UNCHANGED emptyPop
       ELSE /\ emptyPop' = TRUE
            /\ res' = [res EXCEPT ![w] = NoOp]
            /\ UNCHANGED queue
  /\ UNCHANGED jobs_left

\* next_job(), lines 80-89: queue_mutex.lock(); if( !bailout ) take the front
\* of the queue, else inject a no-op job.
NJAfterWait(w) ==
  /\ w \in Workers
  /\ wpc[w] = "nj_wake"
  /\ queue_mutex = {}
  /\ queue_mutex' = {w}
  /\ IF ~bailout THEN TakeAfterWait(w) ELSE Compensate(w)
  /\ wpc' = [wpc EXCEPT ![w] = "nj_unlock"]
  /\ UNCHANGED <<bailout, finished, job_available_mutex, wait_mutex, cvVars,
                 joined, callerVars, executed, appended, ret, taken>>

\* next_job(), lines 90-93: queue_mutex.unlock(); job_lock.unlock(); return
NJUnlock(w) ==
  /\ w \in Workers
  /\ wpc[w] = "nj_unlock"
  /\ queue_mutex' = {}
  /\ job_available_mutex' = {}
  /\ wpc' = [wpc EXCEPT ![w] = "run"]
  /\ UNCHANGED <<poolVars, wait_mutex, cvVars, res, joined, callerVars,
                 executed, emptyPop, appended, ret, taken>>

\* Task(), line 56: the call of the job next_job() returned
RunJob(w) ==
  /\ w \in Workers
  /\ wpc[w] = "run"
  /\ executed' = IF res[w] = NoOp THEN executed
                 ELSE [executed EXCEPT ![res[w]] = @ + 1]
  /\ res' = [res EXCEPT ![w] = NoOp]
  /\ wpc' = [wpc EXCEPT ![w] = "dec"]
  /\ UNCHANGED <<poolVars, mutexVars, cvVars, joined, callerVars,
                 emptyPop, appended, ret, taken>>

\* Task(), line 57: --jobs_left
Dec(w) ==
  /\ w \in Workers
  /\ wpc[w] = "dec"
  /\ jobs_left' = jobs_left - 1
  /\ wpc' = [wpc EXCEPT ![w] = "notify"]
  /\ UNCHANGED <<queue, bailout, finished, mutexVars, cvVars, res, joined,
                 callerVars, executed, emptyPop, appended, ret, taken>>

\* Task(), line 58: wait_var.notify_one()
NotifyDone(w) ==
  /\ w \in Workers
  /\ wpc[w] = "notify"
  /\ wait_waiters' \in NotifyOne(wait_waiters)
  /\ wpc' = [wpc EXCEPT ![w] = "task"]
  /\ UNCHANGED <<poolVars, mutexVars, job_available_waiters, res, joined,
                 callerVars, executed, emptyPop, appended, ret, taken>>

\* A spurious wake-up of a worker blocked on job_available_var
SpuriousJobWake(w) ==
  /\ w \in Workers
  /\ w \in job_available_waiters
  /\ job_available_waiters' = job_available_waiters \ {w}
  /\ UNCHANGED <<poolVars, mutexVars, wait_waiters, workerVars, joined,
                 callerVars, executed, emptyPop, appended, ret, taken>>

\* A step of worker thread w (no step when the pool has no thread w)
WorkerStep(w) ==
  \/ TaskLoop(w)
  \/ NJLock(w)
  \/ NJFirst(w)
  \/ NJPred(w)
  \/ NJPredBail(w)
  \/ NJBlock(w)
  \/ NJReacquire(w)
  \/ NJAfterWait(w)
  \/ NJUnlock(w)
  \/ RunJob(w)
  \/ Dec(w)
  \/ NotifyDone(w)

----------------------------------------------------------------------------
(* The caller threads: the public member functions                         *)

Other(c) == IF c = Owner THEN Client ELSE Owner

\* The pool may still be used by c: JoinAll has not completed ("After
\* invoking ThreadPool::JoinAll, the pool can no longer be used", lines
\* 146-147) and the pool is not being destroyed.
Usable(c) ==
  /\ cpc[c] = "idle"
  /\ ~finished
  /\ cop[Owner] # "Dtor"

\* The return of the call c is making: a destructor ends the pool's life.
Return(c) == IF cop[c] = "Dtor" THEN "destroyed" ELSE "idle"

\* A JoinAll whose WaitForAll defaults to false
DefaultWaitForAll_False == FALSE

\* JoinAll, line 150: the default argument WaitForAll = true, which
\* ~ThreadPool() uses (line 110).
DefaultWaitForAll == TRUE

\* The WaitForAll argument of the JoinAll call c is making

WaitForAll(c) ==
  IF cop[c] = "Dtor" THEN DefaultWaitForAll ELSE cop[c] = "JoinAllT"

\* AddJob( job ) is called with a job not submitted before.
CallAddJob(c) ==
  /\ Usable(c)
  /\ nextJob <= MaxJobs
  /\ cpc' = [cpc EXCEPT ![c] = "aj_push"]
  /\ cop' = [cop EXCEPT ![c] = "AddJob"]
  /\ arg' = [arg EXCEPT ![c] = nextJob]
  /\ nextJob' = nextJob + 1
  /\ conc' = [conc EXCEPT ![Other(c)] = @ \/ Draining(Other(c))]
  /\ UNCHANGED <<poolVars, mutexVars, cvVars, workerVars, joined, submitted,
                 executed, joinRan, dtorBusy, queuedAtJoin,
                 emptyPop, appended, ret, taken>>

\* An AddJob that does not wait for queue_mutex to be free
AJPush_NoLock(c) ==
  /\ cpc[c] = "aj_push"
  /\ queue_mutex' = queue_mutex \cup {c}
  /\ queue' = Append(queue, arg[c])
  /\ appended' = Append(appended, arg[c])
  /\ cpc' = [cpc EXCEPT ![c] = "aj_inc"]
  /\ UNCHANGED <<jobs_left, bailout, finished, job_available_mutex, wait_mutex,
                 cvVars, workerVars, joined, cop, arg, nextJob, submitted,
                 executed, conc, joinRan, dtorBusy, queuedAtJoin,
                 emptyPop, ret, taken>>

\* AddJob, lines 134-135: lock_guard on queue_mutex; queue.emplace_back( job )
AJPush(c) ==
  /\ cpc[c] = "aj_push"
  /\ queue_mutex = {}
  /\ queue_mutex' = {c}
  /\ queue' = Append(queue, arg[c])
  /\ appended' = Append(appended, arg[c])
  /\ cpc' = [cpc EXCEPT ![c] = "aj_inc"]
  /\ UNCHANGED <<jobs_left, bailout, finished, job_available_mutex, wait_mutex,
                 cvVars, workerVars, joined, cop, arg, nextJob, submitted,
                 executed, conc, joinRan, dtorBusy, queuedAtJoin,
                 emptyPop, ret, taken>>

\* An AddJob that forgets its ++jobs_left
AJInc_Forgotten(c) ==
  /\ cpc[c] = "aj_inc"
  /\ cpc' = [cpc EXCEPT ![c] = "aj_notify"]
  /\ UNCHANGED <<poolVars, mutexVars, cvVars, workerVars, joined, cop, arg,
                 nextJob, submitted, executed, conc, joinRan, dtorBusy,
                 queuedAtJoin, emptyPop, appended, ret, taken>>

\* AddJob, line 136: ++jobs_left
AJInc(c) ==
  /\ cpc[c] = "aj_inc"
  /\ jobs_left' = jobs_left + 1
  /\ cpc' = [cpc EXCEPT ![c] = "aj_notify"]
  /\ UNCHANGED <<queue, bailout, finished, mutexVars, cvVars, workerVars,
                 joined, cop, arg, nextJob, submitted, executed, conc, joinRan,
                 dtorBusy, queuedAtJoin,
                 emptyPop, appended, ret, taken>>

\* AddJob, lines 137-138: job_available_var.notify_one(); the lock_guard
\* releases queue_mutex and the call returns.
AJNotify(c) ==
  /\ cpc[c] = "aj_notify"
  /\ job_available_waiters' \in NotifyOne(job_available_waiters)
  /\ queue_mutex' = {}
  /\ submitted' = submitted \cup {arg[c]}
  /\ cpc' = [cpc EXCEPT ![c] = "idle"]
  /\ cop' = [cop EXCEPT ![c] = "none"]
  /\ arg' = [arg EXCEPT ![c] = NoOp]
  /\ UNCHANGED <<poolVars, job_available_mutex, wait_mutex, wait_waiters,
                 workerVars, joined, nextJob, executed, conc, joinRan,
                 dtorBusy, queuedAtJoin,
                 emptyPop, appended, ret, taken>>

\* JobsRemaining() is called by c, lines 123-125: lock_guard on queue_mutex;
\* queue.size() is read into the return value.
JRRead(c) ==
  /\ Usable(c)
  /\ queue_mutex = {}
  /\ queue_mutex' = {c}
  /\ ret' = JobsRemaining
  /\ cpc' = [cpc EXCEPT ![c] = "jr_return"]
  /\ UNCHANGED <<poolVars, job_available_mutex, wait_mutex, cvVars,
                 workerVars, joined, cop, arg, nextJob, submitted, executed,
                 conc, joinRan, dtorBusy, queuedAtJoin, emptyPop, appended,
                 taken>>

\* JobsRemaining(), line 126: the lock_guard releases queue_mutex and the
\* call returns the value read.
JRReturn(c) ==
  /\ cpc[c] = "jr_return"
  /\ queue_mutex' = {}
  /\ ret' = 0
  /\ cpc' = [cpc EXCEPT ![c] = "idle"]
  /\ UNCHANGED <<poolVars, job_available_mutex, wait_mutex, cvVars,
                 workerVars, joined, cop, arg, nextJob, submitted, executed,
                 conc, joinRan, dtorBusy, queuedAtJoin, emptyPop, appended,
                 taken>>

\* WaitAll() is called.
CallWaitAll(c) ==
  /\ Usable(c)
  /\ cpc' = [cpc EXCEPT ![c] = "wa_check"]
  /\ cop' = [cop EXCEPT ![c] = "WaitAll"]
  /\ conc' = [conc EXCEPT ![c] = InAddJob(Other(c))]
  /\ UNCHANGED <<poolVars, mutexVars, cvVars, workerVars, joined, arg, nextJob,
                 submitted, executed, joinRan, dtorBusy, queuedAtJoin,
                 emptyPop, appended, ret, taken>>

\* Where WaitAll returns to: its caller, or line 158 of JoinAll.
AfterWaitAll(c) == IF cop[c] = "WaitAll" THEN "idle" ELSE "ja_bail"

\* The bookkeeping of c's calls when WaitAll returns: a direct call is over.
EndWaitAll(c) ==
  IF cop[c] = "WaitAll"
    THEN /\ cop' = [cop EXCEPT ![c] = "none"]
         /\ conc' = [conc EXCEPT ![c] = FALSE]
    ELSE UNCHANGED <<cop, conc>>

\* WaitAll, line 174: if( jobs_left > 0 )
WACheck(c) ==
  /\ cpc[c] = "wa_check"
  /\ IF jobs_left > 0
       THEN /\ cpc' = [cpc EXCEPT ![c] = "wa_lock"]
            /\ UNCHANGED <<cop, conc>>
       ELSE /\ cpc' = [cpc EXCEPT ![c] = AfterWaitAll(c)]
            /\ EndWaitAll(c)
  /\ UNCHANGED <<poolVars, mutexVars, cvVars, workerVars, joined, arg, nextJob,
                 submitted, executed, joinRan, dtorBusy, queuedAtJoin,
                 emptyPop, appended, ret, taken>>

\* WaitAll, line 175: unique_lock<mutex> lk( wait_mutex )
WALock(c) ==
  /\ cpc[c] = "wa_lock"
  /\ wait_mutex = {}
  /\ wait_mutex' = {c}
  /\ cpc' = [cpc EXCEPT ![c] = "wa_pred"]
  /\ UNCHANGED <<poolVars, queue_mutex, job_available_mutex, cvVars,
                 workerVars, joined, cop, arg, nextJob, submitted, executed,
                 conc, joinRan, dtorBusy, queuedAtJoin,
                 emptyPop, appended, ret, taken>>

\* A wait predicate that is off by one
DrainPredicate_OffByOne == jobs_left <= 1

\* WaitAll, line 176, the wait predicate: this->jobs_left == 0
DrainPredicate == jobs_left = 0

\* WaitAll, line 176: the predicate is evaluated with wait_mutex held.
WAPred(c) ==
  /\ cpc[c] = "wa_pred"
  /\ cpc' = [cpc EXCEPT ![c] = IF DrainPredicate THEN "wa_unlock"
                                                 ELSE "wa_block"]
  /\ UNCHANGED <<poolVars, mutexVars, cvVars, workerVars, joined, cop, arg,
                 nextJob, submitted, executed, conc, joinRan, dtorBusy,
                 queuedAtJoin, emptyPop, appended, ret, taken>>

\* WaitAll, line 176, the predicate was false: condition_variable::wait
\* atomically releases wait_mutex and blocks the caller.
WABlock(c) ==
  /\ cpc[c] = "wa_block"
  /\ wait_mutex' = {}
  /\ wait_waiters' = wait_waiters \cup {c}
  /\ cpc' = [cpc EXCEPT ![c] = "wa_waiting"]
  /\ UNCHANGED <<poolVars, queue_mutex, job_available_mutex,
                 job_available_waiters, workerVars, joined, cop, arg, nextJob,
                 submitted, executed, conc, joinRan, dtorBusy, queuedAtJoin,
                 emptyPop, appended, ret, taken>>

\* WaitAll, line 176: a caller that was unblocked reacquires wait_mutex and
\* evaluates the predicate again.
WAReacquire(c) ==
  /\ cpc[c] = "wa_waiting"
  /\ c \notin wait_waiters
  /\ wait_mutex = {}
  /\ wait_mutex' = {c}
  /\ cpc' = [cpc EXCEPT ![c] = "wa_pred"]
  /\ UNCHANGED <<poolVars, queue_mutex, job_available_mutex, cvVars,
                 workerVars, joined, cop, arg, nextJob, submitted, executed,
                 conc, joinRan, dtorBusy, queuedAtJoin,
                 emptyPop, appended, ret, taken>>

\* WaitAll, lines 177-179: lk.unlock(); return
WAUnlock(c) ==
  /\ cpc[c] = "wa_unlock"
  /\ wait_mutex' = {}
  /\ cpc' = [cpc EXCEPT ![c] = AfterWaitAll(c)]
  /\ EndWaitAll(c)
  /\ UNCHANGED <<poolVars, queue_mutex, job_available_mutex, cvVars,
                 workerVars, joined, arg, nextJob, submitted, executed,
                 joinRan, dtorBusy, queuedAtJoin,
                 emptyPop, appended, ret, taken>>

\* A spurious wake-up of a caller blocked on wait_var
SpuriousWaitWake(c) ==
  /\ c \in wait_waiters
  /\ wait_waiters' = wait_waiters \ {c}
  /\ UNCHANGED <<poolVars, mutexVars, job_available_waiters, workerVars,
                 joined, callerVars, executed, emptyPop, appended, ret, taken>>

\* JoinAll( WaitForAll ) is called by the pool's owner.
CallJoinAll(b) ==
  /\ cpc[Owner] = "idle"
  /\ cpc' = [cpc EXCEPT ![Owner] = "ja_check"]
  /\ cop' = [cop EXCEPT ![Owner] = IF b THEN "JoinAllT" ELSE "JoinAllF"]
  /\ conc' = [conc EXCEPT ![Owner] = InAddJob(Client)]
  /\ queuedAtJoin' = IF b \/ finished THEN queuedAtJoin
                     ELSE {queue[k] : k \in 1..Len(queue)} \cap submitted
  /\ UNCHANGED <<poolVars, mutexVars, cvVars, workerVars, joined, arg, nextJob,
                 submitted, executed, joinRan, dtorBusy,
                 emptyPop, appended, ret, taken>>

\* ~ThreadPool(), lines 109-111: the owner destroys the pool, which no other
\* thread is using; the destructor calls JoinAll().
CallDestructor ==
  /\ cpc[Owner] = "idle"
  /\ cpc[Client] = "idle"
  /\ cpc' = [cpc EXCEPT ![Owner] = "ja_check"]
  /\ cop' = [cop EXCEPT ![Owner] = "Dtor"]
  /\ conc' = [conc EXCEPT ![Owner] = FALSE]
  /\ dtorBusy' = \E j \in submitted : executed[j] = 0
  /\ UNCHANGED <<poolVars, mutexVars, cvVars, workerVars, joined, arg, nextJob,
                 submitted, executed, joinRan, queuedAtJoin,
                 emptyPop, appended, ret, taken>>

\* A JoinAll that does not look at finished
JoinAllSkips_Never == FALSE

\* JoinAll, line 151: the call does nothing when finished is already set.
JoinAllSkips == finished

\* JoinAll, lines 151-154: if( !finished ) { if( WaitForAll ) WaitAll(); ...
JACheck(c) ==
  /\ cpc[c] = "ja_check"
  /\ joinRan' = ~JoinAllSkips
  /\ cpc' = [cpc EXCEPT ![c] = IF JoinAllSkips THEN Return(c)
                               ELSE IF WaitForAll(c) THEN "wa_check"
                               ELSE "ja_bail"]
  /\ UNCHANGED <<poolVars, mutexVars, cvVars, workerVars, joined, cop, arg,
                 nextJob, submitted, executed, conc, dtorBusy, queuedAtJoin,
                 emptyPop, appended, ret, taken>>

\* JoinAll, line 158: bailout = true
JABail(c) ==
  /\ cpc[c] = "ja_bail"
  /\ bailout' = TRUE
  /\ cpc' = [cpc EXCEPT ![c] = "ja_notify"]
  /\ UNCHANGED <<queue, jobs_left, finished, mutexVars, cvVars, workerVars,
                 joined, cop, arg, nextJob, submitted, executed, conc, joinRan,
                 dtorBusy, queuedAtJoin,
                 emptyPop, appended, ret, taken>>

\* JoinAll, line 159: job_available_var.notify_all()
JANotifyAll(c) ==
  /\ cpc[c] = "ja_notify"
  /\ job_available_waiters' = {}
  /\ cpc' = [cpc EXCEPT ![c] = "ja_join"]
  /\ UNCHANGED <<poolVars, mutexVars, wait_waiters, workerVars, joined, cop,
                 arg, nextJob, submitted, executed, conc, joinRan, dtorBusy,
                 queuedAtJoin, emptyPop, appended, ret, taken>>

\* A join that does not wait for the thread
Terminated_Always(i) == TRUE

\* thread::join() on threads[i] returns once the thread function has returned.
Terminated(i) == wpc[i] = "done"

\* JoinAll, lines 161-163: the threads are joined in the order of the array.
JAJoin(c) ==
  /\ cpc[c] = "ja_join"
  /\ joined # Workers
  /\ LET i == CHOOSE x \in Workers \ joined :
                 \A y \in Workers \ joined : x <= y
     IN  /\ Terminated(i)
         /\ joined' = joined \cup {i}
  /\ UNCHANGED <<poolVars, mutexVars, cvVars, workerVars, callerVars, executed,
                 emptyPop, appended, ret, taken>>

\* A join loop that stops after the first thread
JAFinish_AfterFirstJoin(c) ==
  /\ cpc[c] = "ja_join"
  /\ joined # {}
  /\ finished' = TRUE
  /\ cpc' = [cpc EXCEPT ![c] = Return(c)]
  /\ UNCHANGED <<queue, jobs_left, bailout, mutexVars, cvVars, workerVars,
                 joined, cop, arg, nextJob, submitted, executed, conc, joinRan,
                 dtorBusy, queuedAtJoin, emptyPop, appended, ret, taken>>

\* JoinAll, lines 164-166: finished = true; return
JAFinish(c) ==
  /\ cpc[c] = "ja_join"
  /\ joined = Workers
  /\ finished' = TRUE
  /\ cpc' = [cpc EXCEPT ![c] = Return(c)]
  /\ UNCHANGED <<queue, jobs_left, bailout, mutexVars, cvVars, workerVars,
                 joined, cop, arg, nextJob, submitted, executed, conc, joinRan,
                 dtorBusy, queuedAtJoin,
                 emptyPop, appended, ret, taken>>

\* A step inside a call that is under way
CallerStep(c) ==
  \/ AJPush(c)
  \/ AJInc(c)
  \/ AJNotify(c)
  \/ JRReturn(c)
  \/ WACheck(c)
  \/ WALock(c)
  \/ WAPred(c)
  \/ WABlock(c)
  \/ WAReacquire(c)
  \/ WAUnlock(c)
  \/ JACheck(c)
  \/ JABail(c)
  \/ JANotifyAll(c)
  \/ JAJoin(c)
  \/ JAFinish(c)

\* The callers' choice of the next call
Call ==
  \/ \E c \in Callers : CallAddJob(c)
  \/ \E c \in Callers : CallWaitAll(c)
  \/ \E c \in Callers : JRRead(c)
  \/ \E b \in BOOLEAN : CallJoinAll(b)
  \/ CallDestructor

Spurious ==
  \/ \E w \in ThreadIds : SpuriousJobWake(w)
  \/ \E c \in Callers : SpuriousWaitWake(c)

Next ==
  \/ \E w \in ThreadIds : WorkerStep(w)
  \/ \E c \in Callers : CallerStep(c)
  \/ Call
  \/ Spurious

Spec == Init /\ [][Next]_vars

\* Fair scheduling: a thread that can take a step, or can again and again,
\* eventually takes it.  No caller is obliged to make a further call and no
\* wake-up is obliged to be spurious.
Fairness ==
  /\ \A w \in ThreadIds : SF_vars(WorkerStep(w))
  /\ \A c \in Callers : SF_vars(CallerStep(c))

FairSpec == Spec /\ Fairness

\* The fair runs of a pool with a single worker thread
FairSpecOne == InitOne /\ [][Next]_vars /\ Fairness

TypeOK ==
  /\ jobs_left \in Int
  /\ Cardinality(queue_mutex) <= 1
  /\ Cardinality(job_available_mutex) <= 1
  /\ Cardinality(wait_mutex) <= 1

----------------------------------------------------------------------------
(* Vocabulary of the properties                                            *)

\* The owner has called JoinAll or the destructor (a shutdown was requested).
ShutdownRequested == cop[Owner] \in {"JoinAllT", "JoinAllF", "Dtor"}

\* Caller c's WaitAll or JoinAll(true) call returns in this step.
DrainReturns(c) ==
  /\ cop[c] \in {"WaitAll", "JoinAllT"}
  /\ cpc[c] # "idle"
  /\ cpc'[c] = "idle"

\* This step is a step of a WaitAll call that c made itself (not the one
\* JoinAll makes).
WaitAllStep(c) ==
  /\ cop[c] = "WaitAll"
  /\ cpc'[c] # cpc[c]

\* A WaitAll call that c made itself is about to return (line 177).
WaitAllReturning(c) ==
  /\ cop[c] = "WaitAll"
  /\ cpc[c] = "wa_unlock"

\* Every job whose AddJob call has returned has run exactly once.
AllSubmittedRanOnce == \A j \in submitted : executed[j] = 1

\* A JoinAll call of the owner (or the destructor) has returned.
JoinAllReturned ==
  /\ ShutdownRequested
  /\ cpc[Owner] \in {"idle", "destroyed"}

AllWorkersDone == \A w \in Workers : wpc[w] = "done"

QueuedJobs == {queue[k] : k \in 1..Len(queue)}

\* q is what is left of s after removing jobs from its front.
IsSuffix(q, s) == \E k \in 0..Len(s) : q = SubSeq(s, k + 1, Len(s))

\* The number of jobs removed from the queue so far
DequeuedCount == Len(appended) - Len(queue)

\* The jobs a worker has taken from the queue and not finished executing
ExecutingJobs == {res[w] : w \in Workers} \ {NoOp}

\* The workers that hold a job next_job() gave them (a dequeued job, or the
\* no-op injected with its ++jobs_left) and have not yet done --jobs_left
InFlight == {w \in Workers : wpc[w] \in {"nj_unlock", "run", "dec"}}

\* The AddJob calls between emplace_back (line 135) and ++jobs_left (line 136)
Uncounted == {c \in Callers : cpc[c] = "aj_inc"}

\* The jobs that have been removed from the queue
DequeuedJobs == {appended[k] : k \in 1..Len(appended)} \ QueuedJobs

\* Worker w holds the job next_job() gave it, or is completing it (Task(),
\* lines 56-58).
HoldsJob(w) == wpc[w] \in {"nj_unlock", "run", "dec", "notify"}

\* The threads that use the pool's mutexes
Threads == Workers \cup Callers

Mutexes == {"queue_mutex", "job_available_mutex", "wait_mutex"}

\* The set of threads holding mutex m
Holder(m) ==
  CASE m = "queue_mutex" -> queue_mutex
    [] m = "job_available_mutex" -> job_available_mutex
    [] m = "wait_mutex" -> wait_mutex

\* The mutexes thread t is about to lock: the lock() calls of lines 68, 69,
\* 80, 124 (inside the wait predicate of line 78), 134 and 175, and the
\* reacquisition at the end of a condition_variable::wait.
WaitsFor(t) ==
  IF t \in Workers
    THEN CASE wpc[t] = "nj_lock" -> {"job_available_mutex"}
           [] wpc[t] \in {"nj_first", "nj_pred", "nj_wake"} -> {"queue_mutex"}
           [] wpc[t] = "nj_waiting" /\ t \notin job_available_waiters
                -> {"job_available_mutex"}
           [] OTHER -> {}
    ELSE CASE cpc[t] = "aj_push" -> {"queue_mutex"}
           [] cpc[t] = "wa_lock" -> {"wait_mutex"}
           [] cpc[t] = "wa_waiting" /\ t \notin wait_waiters
                -> {"wait_mutex"}
           [] OTHER -> {}

\* Every thread of S waits for a mutex that a thread of S holds.
WaitCycle(S) ==
  \A t \in S : \E m \in WaitsFor(t) : Holder(m) \cap S # {}

\* The threads between an access to the queue and the unlock that follows
\* it: lines 72-90 of next_job, 135-138 of AddJob, 125-126 of JobsRemaining
InQueueSection ==
  {w \in Workers : wpc[w] = "nj_unlock"}
    \cup {c \in Callers : cpc[c] \in {"aj_inc", "aj_notify", "jr_return"}}

\* The number of jobs whose body has run
RunCount == Cardinality({j \in Jobs : executed[j] > 0})

----------------------------------------------------------------------------
(* Properties                                                              *)

\* C1 (as stated): with no concurrent submitter, whenever a WaitAll call or
\* a JoinAll(true) call returns, every job whose AddJob call had returned
\* before has run exactly once.
C1_ExactlyOnce_AnyJoinAll ==
  [][\A c \in Callers :
       (DrainReturns(c) /\ ~conc[c]) => AllSubmittedRanOnce]_vars

\* C1 (amended): with no concurrent submitter, whenever a WaitAll call
\* returns, or a JoinAll(true) call that found finished false on entry
\* returns, every job whose AddJob call had returned before has run exactly
\* once.
C1_ExactlyOnce ==
  [][\A c \in Callers :
       (/\ DrainReturns(c)
        /\ ~conc[c]
        /\ cop[c] = "JoinAllT" => joinRan')
       => AllSubmittedRanOnce]_vars

\* C1: a JoinAll(true) call that performed the shutdown has returned with no
\* concurrent submitter, after every job was submitted.
C1_Witness ==
  /\ cpc[Owner] = "idle"
  /\ cop[Owner] = "JoinAllT"
  /\ joinRan
  /\ ~conc[Owner]
  /\ submitted = Jobs
  /\ AllSubmittedRanOnce

\* C2: when the destructor of a pool on which JoinAll had not been called
\* completes, every submitted job has run (once) and every worker thread
\* has terminated.
C2_DestructionDrains ==
  (cpc[Owner] = "destroyed" /\ joinRan)
    => (AllSubmittedRanOnce /\ AllWorkersDone)

\* C2: a pool was destroyed while submitted jobs had not run yet.
C2_Witness ==
  /\ cpc[Owner] = "destroyed"
  /\ joinRan
  /\ dtorBusy
  /\ submitted = Jobs

\* C3: a WaitAll call that is under way when jobs_left is 0, with no AddJob
\* call in progress, no other WaitAll caller and no shutdown requested,
\* eventually returns (unless one of those then happens).
C3_WaitAllReturns ==
  \A c \in Callers :
    (/\ cop[c] = "WaitAll"
     /\ InWaitAll(c)
     /\ jobs_left = 0
     /\ ~InAddJob(Other(c))
     /\ ~InWaitAll(Other(c))
     /\ ~ShutdownRequested)
    ~> (\/ cpc[c] = "idle"
        \/ InAddJob(Other(c))
        \/ InWaitAll(Other(c))
        \/ ShutdownRequested)

\* C4: once JoinAll has set bailout and is about to notify_all and join, it
\* eventually completes, with every worker thread terminated.
C4_ShutdownTerminates ==
  (cpc[Owner] = "ja_notify") ~> (finished /\ AllWorkersDone)

\* C5: while no shutdown is requested, every job whose AddJob call has
\* returned is eventually executed.
C5_SubmittedJobRuns ==
  \A j \in Jobs :
    (j \in submitted /\ executed[j] = 0 /\ ~ShutdownRequested)
      ~> (executed[j] > 0 \/ ShutdownRequested)

\* C6 (as stated): a job that is queued (its AddJob call returned) when
\* JoinAll(false) is called is never executed.
C6_QueuedAtCallNeverRuns ==
  \A j \in queuedAtJoin : executed[j] = 0

\* C6 (amended): a job that is still queued when JoinAll returns has not run
\* and never runs: once finished is set no job body is executed any more.
C6_QueuedAtReturnNeverRuns ==
  /\ [](finished => \A j \in QueuedJobs : executed[j] = 0)
  /\ [][finished => executed' = executed]_vars

\* C6: JoinAll(false) has returned and a job that was queued when it was
\* called is still in the queue, unrun.
C6_Witness ==
  /\ finished
  /\ cop[Owner] = "JoinAllF"
  /\ \E j \in QueuedJobs : j \in queuedAtJoin /\ executed[j] = 0

C8_QueueEmptyAfterJoinAll ==
  (JoinAllReturned /\ ~InAddJob(Client)) => (queue = <<>> /\ AllWorkersDone)

\* C9: a JoinAll call that finds finished set returns at once: it does not
\* wait, joins no thread, notifies nobody and leaves bailout, finished,
\* jobs_left and the queue as they are.
C9_IdempotentJoinAll ==
  [][(/\ cpc[Owner] = "ja_check"
      /\ finished
      /\ cpc'[Owner] # "ja_check")
     => (/\ cpc'[Owner] \in {"idle", "destroyed"}
         /\ UNCHANGED <<poolVars, joined, cvVars, mutexVars>>)]_vars

\* C9: a JoinAll call made after the first one returned has returned.
C9_Witness ==
  /\ JoinAllReturned
  /\ finished
  /\ ~joinRan

\* C10: jobs_left is never negative.
C10_CounterNonNegative == jobs_left >= 0

\* C10: a worker is about to run the job it injected on bailout, and
\* jobs_left counts nothing else.
C10_Witness ==
  /\ bailout
  /\ jobs_left = 1
  /\ \E w \in Workers : wpc[w] = "run" /\ res[w] = NoOp

\* C11: jobs leave the queue in the order AddJob appended them: the queue is
\* always what is left of the appended jobs after removals from the front,
\* and a worker that obtains a job obtains the oldest appended job not yet
\* removed; with one worker the jobs also run in that order.
C11_FifoDequeue ==
  /\ [](IsSuffix(queue, appended))
  /\ [][\A w \in Workers :
         (res'[w] # res[w] /\ res'[w] # NoOp)
           => res'[w] = appended[DequeuedCount + 1]]_vars
  /\ [][(ThreadCount = 1 /\ executed' # executed)
         => executed' = [executed EXCEPT ![appended[RunCount + 1]] = 1]]_vars

\* C11: the only worker of a pool has run every job, and the jobs were
\* appended in another order than their AddJob calls began.
C11_Witness ==
  /\ ThreadCount = 1
  /\ Len(appended) = MaxJobs
  /\ appended[1] # 1
  /\ queue = <<>>
  /\ \A j \in Jobs : executed[j] = 1

\* C12 (as stated): the value a JobsRemaining call returns is the number of
\* jobs submitted and not yet finished: the queued jobs plus the jobs being
\* executed by a worker.
C12_ReturnsUnfinishedJobs ==
  \A c \in Callers :
    cpc[c] = "jr_return" => ret = Len(queue) + Cardinality(ExecutingJobs)

\* C12 (amended): the value a JobsRemaining call returns is the number of
\* jobs in the queue; jobs being executed by a worker are not counted.
C12_ReturnsQueueSize ==
  \A c \in Callers : cpc[c] = "jr_return" => ret = Len(queue)

\* C12: a JobsRemaining call returns 1 while one job is queued and another
\* is being executed.
C12_Witness ==
  /\ \E c \in Callers : cpc[c] = "jr_return"
  /\ ret = 1
  /\ ExecutingJobs # {}

\* C13, the frame: no step of a WaitAll call changes bailout or finished,
\* removes a job from the queue or moves a worker; and when the call returns
\* with no shutdown requested the caller may go on using the pool.
C13_WaitAllFrame ==
  /\ [][\A c \in Callers :
         WaitAllStep(c) => UNCHANGED <<bailout, finished, queue, wpc, joined>>
      ]_vars
  /\ [][\A c \in Callers :
         (WaitAllStep(c) /\ cpc'[c] = "idle" /\ ~ShutdownRequested)
           => Usable(c)']_vars

\* C13: WaitAll does not shut the pool down (the frame above), and a job
\* submitted after a WaitAll call returned is executed (unless a shutdown
\* is requested first).
C13_WaitAllKeepsPoolUsable ==
  /\ C13_WaitAllFrame
  /\ \A c \in Callers, j \in Jobs :
       []((WaitAllReturning(c) /\ nextJob <= j)
            => [](((j \in submitted) /\ ~ShutdownRequested)
                    => <>(executed[j] > 0 \/ ShutdownRequested)))

\* C14 (as stated): in every reachable state jobs_left is the number of
\* queued jobs plus the number of jobs (real or injected) a worker holds
\* and has not yet decremented for.
C14_CounterIsQueuedPlusInFlight ==
  jobs_left = Len(queue) + Cardinality(InFlight)

\* C14 (amended): the same, except that a job AddJob has appended is counted
\* only from that call's ++jobs_left on; and jobs_left changes only by the
\* one increment of an AddJob call, the one increment of an injected no-op
\* and the one decrement after a job has run.
C14_CounterAccounting ==
  /\ [](jobs_left = Len(queue) + Cardinality(InFlight)
                       - Cardinality(Uncounted))
  /\ [][jobs_left' # jobs_left =>
         \/ /\ jobs_left' = jobs_left + 1
            /\ \E c \in Callers :
                 cpc[c] = "aj_inc" /\ cpc'[c] = "aj_notify"
         \/ /\ jobs_left' = jobs_left + 1
            /\ \E w \in Workers :
                 /\ wpc[w] = "nj_wake" /\ wpc'[w] = "nj_unlock"
                 /\ bailout /\ res'[w] = NoOp
         \/ /\ jobs_left' = jobs_left - 1
            /\ \E w \in Workers :
                 wpc[w] = "dec" /\ wpc'[w] = "notify"]_vars

\* C14: jobs_left = 3 counts a queued job, a dequeued job a worker is about
\* to run and the no-op another worker injected on bailout.
C14_Witness ==
  /\ queue # <<>>
  /\ Uncounted = {}
  /\ \E w \in InFlight : res[w] # NoOp
  /\ \E w \in InFlight : wpc[w] = "run" /\ res[w] = NoOp
  /\ jobs_left = 3

\* C15: once bailout is set a worker dequeues at most one more real job
\* before its thread function returns; a dequeued job is never dropped: it
\* has run or a live worker holds it, that worker can always take its next
\* step, and the steps from the dequeue on (unlock, run the job, --jobs_left,
\* notify_one, back to the loop test) are the same whatever bailout is; a
\* worker exits only at the loop test.
C15_ShutdownOnlyStopsNewWork ==
  /\ [](\A w \in Workers : taken[w] <= 1)
  /\ [](\A j \in DequeuedJobs :
          \/ executed[j] = 1
          \/ \E w \in Workers :
               res[w] = j /\ wpc[w] \in {"nj_unlock", "run"})
  /\ [](\A w \in Workers : HoldsJob(w) => ENABLED WorkerStep(w))
  /\ [][\A w \in Workers :
         /\ (wpc[w] = "nj_unlock" /\ wpc'[w] # wpc[w])
              => (wpc'[w] = "run" /\ res'[w] = res[w])
         /\ (wpc[w] = "run" /\ wpc'[w] # wpc[w])
              => /\ wpc'[w] = "dec"
                 /\ res[w] # NoOp => executed'[res[w]] = executed[res[w]] + 1
         /\ (wpc[w] = "dec" /\ wpc'[w] # wpc[w])
              => (wpc'[w] = "notify" /\ jobs_left' = jobs_left - 1)
         /\ (wpc[w] = "notify" /\ wpc'[w] # wpc[w]) => wpc'[w] = "task"
         /\ (wpc'[w] = "done" /\ wpc[w] # "done")
              => (wpc[w] = "task" /\ bailout)]_vars

\* C15: a worker that dequeued a job after bailout was set has completed it
\* and is back at the loop test, with another job still queued.
C15_Witness ==
  /\ bailout
  /\ queue # <<>>
  /\ \E w \in Workers :
       /\ taken[w] = 1
       /\ wpc[w] = "task"
       /\ \E j \in DequeuedJobs : executed[j] = 1

\* C16: a worker that is running a job body (or completing it) holds no
\* mutex; a worker blocked on job_available_var holds neither queue_mutex
\* nor job_available_mutex; whoever holds queue_mutex is inside a critical
\* section of next_job, AddJob or JobsRemaining and can take its next step,
\* so it is never an idle or executing worker that keeps a submitter out;
\* and no set of threads wait for mutexes held by each other.
C16_LockDiscipline ==
  /\ \A w \in Workers :
       wpc[w] \in {"run", "dec", "notify"}
         => \A m \in Mutexes : w \notin Holder(m)
  /\ \A w \in job_available_waiters :
       w \notin queue_mutex /\ w \notin job_available_mutex
  /\ \A t \in queue_mutex :
       IF t \in Workers
         THEN wpc[t] = "nj_unlock" /\ ENABLED WorkerStep(t)
         ELSE cpc[t] \in {"aj_inc", "aj_notify", "jr_return"}
              /\ ENABLED CallerStep(t)
  /\ \A S \in SUBSET Threads : S # {} => ~WaitCycle(S)

\* C16: a submitter is about to lock queue_mutex while one worker is blocked
\* on job_available_var and another is running a job.
C16_Witness ==
  /\ \E c \in Callers : cpc[c] = "aj_push"
  /\ \E w \in Workers : w \in job_available_waiters
  /\ \E w \in Workers : wpc[w] = "run" /\ res[w] # NoOp

\* C17: the threads that are in a section of code accessing the queue are
\* exactly the holders of queue_mutex, at most one at a time; the queue
\* changes only in a step that found queue_mutex free and locks it, and the
\* size read inside the wait predicate happens only when queue_mutex is
\* free; no job is held by two workers, is held by a worker and still
\* queued or already run, or runs twice.
C17_ExclusiveQueueAccess ==
  /\ [](InQueueSection = queue_mutex /\ Cardinality(queue_mutex) <= 1)
  /\ [][queue' # queue
         => (queue_mutex = {} /\ Cardinality(queue_mutex') = 1)]_vars
  /\ [][\A w \in Workers :
         (wpc[w] = "nj_pred" /\ wpc'[w] # wpc[w]) => queue_mutex = {}]_vars
  /\ [](\A w \in Workers :
          res[w] # NoOp
            => /\ res[w] \notin QueuedJobs
               /\ executed[res[w]] = 0
               /\ \A v \in Workers \ {w} : res[v] # res[w])
  /\ [](\A j \in Jobs : executed[j] <= 1)

\* C17: a worker has just dequeued a job, and still holds queue_mutex,
\* while another worker holds the job it dequeued before.
C17_Witness ==
  \E w \in Workers, v \in Workers :
    /\ w # v
    /\ queue_mutex = {w}
    /\ res[w] # NoOp
    /\ res[v] # NoOp

\* C18: queue.front() and queue.pop_front() are never executed on an empty
\* queue: a worker that left the wait of line 78 with bailout false finds
\* the queue non-empty up to its pop.
C18_NoPopFromEmptyQueue ==
  /\ ~emptyPop
  /\ \A w \in Workers : (wpc[w] = "nj_wake" /\ ~bailout) => queue # <<>>

\* C18: a worker has left the wait because one job is queued and is about
\* to pop it, while the other worker is on its way to the queue.
C18_Witness ==
  \E w \in Workers, v \in Workers :
    /\ w # v
    /\ wpc[w] = "nj_wake"
    /\ ~bailout
    /\ Len(queue) = 1
    /\ wpc[v] = "nj_lock"

\* C19: when both callers are blocked inside wait_var.wait of their WaitAll
\* calls and jobs_left has reached 0, each of the two calls eventually
\* returns (unless the other caller submits again or a shutdown is
\* requested first).
C19_AllWaitersReleased ==
  \A c \in Callers :
    (/\ wait_waiters = Callers
     /\ \A d \in Callers : cop[d] = "WaitAll"
     /\ jobs_left = 0)
    ~> (\/ cpc[c] = "idle"
        \/ InAddJob(Other(c))
        \/ ShutdownRequested)

\* C20 (as stated): whenever every worker thread has terminated, jobs_left
\* is the number of jobs left in the queue; and finished implies bailout
\* and that every worker thread has terminated.
C20_CompensationNetsToZero ==
  /\ AllWorkersDone => jobs_left = Len(queue)
  /\ finished => (bailout /\ AllWorkersDone)

\* C20 (amended): a worker that wakes with bailout set injects a no-op with
\* one ++jobs_left, and its one --jobs_left follows; whenever every worker
\* thread has terminated and no AddJob call is between its emplace_back and
\* its ++jobs_left, jobs_left is the number of jobs left in the queue;
\* finished implies bailout and that every worker thread has terminated.
C20_CompensationNetsToZeroAfterAddJob ==
  /\ [][\A w \in Workers :
         (wpc[w] = "nj_wake" /\ bailout /\ wpc'[w] # wpc[w])
           => (jobs_left' = jobs_left + 1 /\ res'[w] = NoOp)]_vars
  /\ [][\A w \in Workers :
         (wpc[w] = "run" /\ res[w] = NoOp /\ wpc'[w] # wpc[w])
           => (wpc'[w] = "dec" /\ executed' = executed)]_vars
  /\ []((AllWorkersDone /\ Uncounted = {}) => jobs_left = Len(queue))
  /\ [](finished => (bailout /\ AllWorkersDone))

\* C20: in a pool of two threads, one has terminated and the other has woken
\* with bailout set and is about to run the no-op it injected; jobs_left
\* counts that no-op and the discarded job left in the queue.
C20_Witness ==
  /\ ThreadCount = 2
  /\ bailout
  /\ Uncounted = {}
  /\ queue # <<>>
  /\ jobs_left = Len(queue) + 1
  /\ \E w \in Workers :
       /\ wpc[w] = "run"
       /\ res[w] = NoOp
       /\ \A v \in Workers \ {w} : wpc[v] = "done"

====
